---- MODULE Spec2Model ----
(***************************************************************************)
(* Model of the FI short-interest tracker (fi_blankning.py, database.py).  *)
(*                                                                         *)
(* Units.  position_percent is a fixed-point integer counting 1e-6 percent *)
(* points, so the tolerance 0.0001 is 100 units and rounding to 5 decimals *)
(* is rounding to a multiple of 10 units.  A timestamp / marker string     *)
(* "YYYY-MM-DD HH:MM" is the integer rank of that minute; the placeholder  *)
(* "0001-01-01 00:00" is rank 0 and Python's None is -1.  A position date  *)
(* is an integer count of half-days, so that strftime('%Y-%m-%d') has      *)
(* something to truncate.                                                  *)
(***************************************************************************)
EXTENDS Integers, Sequences, FiniteSets, TLC

\* ---------------------------------------------------------------- bounds
MaxMarker == 2
MaxHistory == 3
MaxManual == 1
MaxSnap == 2
MaxDay == 1
SlotsPerDay == 2
MaxFailures == 2
MaxHour == 2
MaxAttempt == 7
MaxBatches == 2
MaxCalls == 3

\* ------------------------------------------------------ program constants
NoneTS == -1
PLACEHOLDER == 0
\* the marker '' that split(": ")[1].strip() yields when the page names no time
EMPTY == -2
NoFail == -1
TOLERANCE == 100
ROUND_UNIT == 10
DELAY_TIME == 900
\* mfn.py, in tenths of a second
MAX_RECONNECT_WAIT_SECONDS == 600
BASE_BACKOFF_SECONDS == 15
FAST_RECONNECT_DELAY_SECONDS == 10
\* mfn.py, in seconds
INACTIVITY_FRAME_TIMEOUT_SECONDS == 120
MANUAL_PING_GRACE_SECONDS == 15

\* ----------------------------------------------------------- value domains
Markers == 1..MaxMarker
Keys == {"k1", "k2"}
Tables == {"ShortPositions", "PositionHolders"}

\* ------------------------------------------------------------ row helpers
\* percentages (in units of 1e-6, below 0.001) that end in 5 and whose double,
\* times 1e5, lies below the tie: 0.000035 * 1e5 is 3.4999999999999996
rint_below_tie == {35, 75}

\* DataFrame.round({'position_percent': 5}), computed on doubles as
\* rint(x * 1e5) / 1e5: nearest multiple of 1e-5; a product that is a tie goes
\* to even, a product below the tie goes down. Percentages stay below 0.001
round5(v) ==
    LET q == v \div ROUND_UNIT
        r == v % ROUND_UNIT
    IN  IF 2 * r < ROUND_UNIT THEN q * ROUND_UNIT
        ELSE IF 2 * r > ROUND_UNIT THEN (q + 1) * ROUND_UNIT
        ELSE IF v \in rint_below_tie THEN q * ROUND_UNIT
        ELSE IF q % 2 = 0 THEN q * ROUND_UNIT ELSE (q + 1) * ROUND_UNIT

\* .dt.strftime('%Y-%m-%d'): the day of a datetime, time of day cut off
strftime_Ymd(d) == d \div SlotsPerDay

\* pd.to_datetime of a stored 'YYYY-MM-DD' string: midnight of that day
to_datetime(day) == day * SlotsPerDay

KeysOf(seq) == {seq[i].key : i \in DOMAIN seq}

\* drop_duplicates(key columns, keep='last'): a row stays iff no later row has its key
drop_duplicates_last(seq) ==
    LET keep == {i \in DOMAIN seq : \A j \in DOMAIN seq : j > i => seq[j].key # seq[i].key}
        F[n \in 0..Len(seq)] ==
            IF n = 0 THEN << >>
            ELSE IF n \in keep THEN Append(F[n - 1], seq[n]) ELSE F[n - 1]
    IN  F[Len(seq)]

\* all orderings of a finite set of indices
RECURSIVE Perms(_)
Perms(S) ==
    IF S = {} THEN {<< >>}
    ELSE UNION {{<<x>> \o p : p \in Perms(S \ {x})} : x \in S}

\* sort_values('timestamp') with the default (unstable) quicksort: rows come out in
\* non-decreasing timestamp order, rows of equal timestamp in any order
RECURSIVE SortFrom(_, _)
SortFrom(seq, t) ==
    IF t > MaxMarker THEN {<< >>}
    ELSE LET grp == {i \in DOMAIN seq : seq[i].timestamp = t}
         IN  {[n \in 1..Len(p) |-> seq[p[n]]] \o rest :
                 p \in Perms(grp), rest \in SortFrom(seq, t + 1)}

sort_values(seq) == SortFrom(seq, 1)

\* old_data.sort_values('timestamp').drop_duplicates(key columns, keep='last'): the
\* frames this can yield, one row per key, a row of the key's greatest timestamp
latest_per_key(old_data) == {drop_duplicates_last(x) : x \in sort_values(old_data)}

\* the row of the (deduplicated) frame that carries key k
RowOf(seq, k) == seq[CHOOSE i \in DOMAIN seq : seq[i].key = k]

\* new_data['timestamp'] = fetched_timestamp
Stamp(seq, ts) ==
    [i \in DOMAIN seq |-> [key |-> seq[i].key, position_percent |-> seq[i].position_percent,
                           position_date |-> seq[i].position_date, timestamp |-> ts]]

\* the rows as they are handed to the database: date as 'YYYY-MM-DD' string,
\* percentage rounded to 5 decimals
ToInsert(seq) ==
    [i \in DOMAIN seq |-> [key |-> seq[i].key,
                           position_percent |-> round5(seq[i].position_percent),
                           position_date |-> strftime_Ymd(seq[i].position_date),
                           timestamp |-> seq[i].timestamp]]

\* old_data as read from the table: the stored date string parsed back to a datetime
FromDb(seq) ==
    [i \in DOMAIN seq |-> [key |-> seq[i].key, position_percent |-> seq[i].position_percent,
                           position_date |-> to_datetime(seq[i].position_date),
                           timestamp |-> seq[i].timestamp]]


\* ------------------------------------------------------------ Diff Engine
\* percentages lo (in units of 1e-6, lo + 100 below 0.001) for which the doubles
\* of lo + 100 and of lo lie more than the double 0.0001 apart, although the
\* decimals are exactly 0.0001 apart: 0.00016 - 0.00006 is 1.0000000000000002e-04
double_gap_exceeds ==
    {31, 32, 41, 42, 51, 52, 60, 61, 70, 89, 99, 118, 128, 129, 130, 138, 139, 140,
     146, 148, 150, 153, 155, 157, 159, 162, 164, 166, 168, 173, 175, 177, 179, 182,
     184, 186, 188, 191, 193, 195, 197, 202, 204, 206, 208, 211, 213, 215, 217, 220,
     222, 224, 226, 231, 233, 235, 237, 240, 242, 244, 249, 251, 260, 269, 271, 278,
     280, 289, 298, 300, 307, 309, 318, 327, 329, 336, 338, 347, 356, 358, 365, 367,
     376, 385, 387, 392, 396, 397, 401, 405, 406, 410, 414, 415, 419, 423, 424, 428,
     432, 433, 437, 441, 445, 446, 450, 454, 455, 459, 463, 464, 468, 472, 473, 477,
     481, 482, 486, 489, 490, 491, 493, 494, 495, 498, 499, 502, 503, 504, 507, 508,
     511, 512, 513, 516, 517, 520, 521, 522, 525, 526, 529, 530, 531, 534, 535, 538,
     539, 540, 542, 543, 544, 547, 548, 551, 552, 553, 556, 557, 560, 561, 562, 565,
     566, 569, 570, 571, 574, 575, 578, 579, 580, 583, 584, 587, 588, 589, 592, 593,
     596, 597, 598, 600, 601, 602, 605, 606, 609, 610, 611, 614, 615, 618, 619, 620,
     623, 624, 627, 628, 629, 632, 633, 636, 637, 638, 641, 642, 645, 646, 647, 649,
     650, 651, 654, 655, 656, 658, 659, 660, 663, 664, 667, 668, 669, 672, 673, 676,
     677, 678, 681, 682, 685, 686, 687, 690, 691, 694, 695, 696, 699, 700, 703, 704,
     705, 707, 708, 709, 712, 713, 714, 716, 717, 718, 721, 722, 725, 726, 727, 730,
     731, 734, 735, 736, 739, 740, 743, 744, 745, 748, 749, 752, 753, 754, 757, 758,
     761, 762, 763, 765, 766, 767, 770, 771, 772, 774, 775, 776, 779, 780, 783, 784,
     785, 788, 789, 792, 793, 794, 797, 798, 801, 802, 803, 806, 807, 810, 811, 812,
     815, 816, 819, 820, 821, 823, 824, 825, 828, 829, 830, 832, 833, 834, 837, 838,
     841, 842, 843, 846, 847, 850, 851, 852, 855, 856, 859, 860, 861, 864, 865, 868,
     869, 870, 873, 874, 877, 879, 881, 882, 884, 887, 889, 890, 892, 894, 895, 897,
     899}

\* abs(new - old) > 0.0001 on doubles: decided by the decimals except where they
\* are exactly 0.0001 apart. Percentages stay below 0.001
perc_diff_exceeds(new, old) ==
    LET perc_diff == IF new < old THEN old - new ELSE new - old
    IN  \/ perc_diff > TOLERANCE
        \/ perc_diff = TOLERANCE /\ (IF new < old THEN new ELSE old) \in double_gap_exceeds

\* the filter on merged_common: the percentage moved by more than the tolerance,
\* or the date string differs
position_changed(new_row, old_row) ==
    \/ perc_diff_exceeds(new_row.position_percent, old_row.position_percent)
    \/ strftime_Ymd(new_row.position_date) # strftime_Ymd(old_row.position_date)

\* a dropped position: the old row with percentage 0.0 and the cycle's timestamp
dropped_position(old_row, fetched_timestamp) ==
    [key |-> old_row.key, position_percent |-> 0,
     position_date |-> old_row.position_date, timestamp |-> fetched_timestamp]

\* a column label of a merged frame: the column name and the suffix merge gave it
Col(name, suffix) == [name |-> name, suffix |-> suffix]

\* merge_cols of the table
merge_cols(table) ==
    IF table = "ShortPositions" THEN {"lei", "company_name"}
    ELSE {"entity_name", "issuer_name", "isin"}

\* new_data.columns when the merges run: the required columns of the file, the
\* timestamp and the date string added by the function
new_data_columns(table) ==
    IF table = "ShortPositions"
    THEN {"company_name", "lei", "position_percent", "latest_position_date",
          "timestamp", "latest_position_date_str"}
    ELSE {"entity_name", "issuer_name", "isin", "position_percent", "position_date",
          "timestamp", "position_date_str"}

\* the columns of pd.merge(left, right, on=on, how='left', indicator=True,
\* suffixes=('_new', '_old')): a column name that both frames have outside the
\* keys comes out twice, once per suffix, and no longer under its own name
merge(left, right, on) ==
    LET overlap == (left \cap right) \ on
    IN  {Col(c, "") : c \in ((left \cup right) \ overlap) \cup {"_merge"}}
          \cup {Col(c, x) : c \in overlap, x \in {"_new", "_old"}}

\* frame[labels] raises KeyError when a label is not a column of the frame
getitem_raises(columns, labels) == \E c \in labels : Col(c, "") \notin columns

\* merged_new[merged_new['_merge'] == 'left_only'][new_data.columns], with
\* merged_new = merge(new_data, old_data[merge_cols + ['position_percent']])
new_selection_raises(table) ==
    getitem_raises(merge(new_data_columns(table),
                         merge_cols(table) \cup {"position_percent"}, merge_cols(table)),
                   new_data_columns(table))

EmptyDiff ==
    [new |-> << >>, changed |-> << >>, dropped |-> << >>, new_rows |-> << >>, raised |-> FALSE]

\* the call left by an exception: nothing computed, nothing inserted
RaisedDiff == [EmptyDiff EXCEPT !.raised = TRUE]

\* update_database_diff up to the insert: old is old_data reduced to the latest
\* record per key.  An empty new_data returns at once; otherwise the selection of
\* new_leis raises KeyError, position_percent having been renamed by the merge.
\* Past it the result lists new_leis, changed_positions and the concatenated,
\* rounded new_rows (there is no dropped part for ShortPositions)
update_database_diff(old, new_data, fetched_timestamp) ==
    IF new_data = << >> THEN EmptyDiff
    ELSE IF new_selection_raises("ShortPositions") THEN RaisedDiff
    ELSE
    LET new == drop_duplicates_last(Stamp(new_data, fetched_timestamp))
        new_leis == SelectSeq(new, LAMBDA r : r.key \notin KeysOf(old))
        changed_positions ==
            SelectSeq(new, LAMBDA r :
                r.key \in KeysOf(old) /\ position_changed(r, RowOf(old, r.key)))
    IN  [new |-> ToInsert(new_leis),
         changed |-> ToInsert(changed_positions),
         dropped |-> << >>,
         new_rows |-> ToInsert(new_leis \o changed_positions),
         raised |-> FALSE]

\* update_position_holders up to the insert: as above (the selection of
\* new_positions raises the same KeyError), plus the dropped positions, the latest
\* old rows with a positive percentage whose key left the snapshot, re-emitted
\* with percentage 0 and the cycle's timestamp
update_position_holders(old, new_data, fetched_timestamp) ==
    IF new_data = << >> THEN EmptyDiff
    ELSE IF new_selection_raises("PositionHolders") THEN RaisedDiff
    ELSE
    LET new == drop_duplicates_last(Stamp(new_data, fetched_timestamp))
        new_positions == SelectSeq(new, LAMBDA r : r.key \notin KeysOf(old))
        changed_positions ==
            SelectSeq(new, LAMBDA r :
                r.key \in KeysOf(old) /\ position_changed(r, RowOf(old, r.key)))
        potential_dropped_positions == SelectSeq(old, LAMBDA r : r.key \notin KeysOf(new))
        dropped_sel == SelectSeq(potential_dropped_positions, LAMBDA r : r.position_percent > 0)
        dropped_positions ==
            [i \in DOMAIN dropped_sel |-> dropped_position(dropped_sel[i], fetched_timestamp)]
    IN  [new |-> ToInsert(new_positions),
         changed |-> ToInsert(changed_positions),
         dropped |-> ToInsert(dropped_positions),
         new_rows |-> ToInsert(new_positions \o changed_positions \o dropped_positions),
         raised |-> FALSE]

\* the diff function of a table
diff_of(table, old, new_data, fetched_timestamp) ==
    IF table = "ShortPositions"
    THEN update_database_diff(old, new_data, fetched_timestamp)
    ELSE update_position_holders(old, new_data, fetched_timestamp)

\* ------------------------------------------------------------------ state
VARIABLES
    db,                   \* the sqlite connection: committed rows and open transaction per table
    last_known_file,      \* content of last_known_timestamp.txt (NoneTS: no file)
    files,                \* the two shared .ods files on disk
    pc,                   \* where each coroutine stands (its current await)
    web_timestamp,        \* the marker each coroutine fetched
    last_known_timestamp, \* the marker is_timestamp_updated read before fetching
    sleep,                \* which sleep the scheduler loop is in
    outcome,              \* how the scheduler's current cycle ended
    wait,                 \* seconds the scheduler loop's current sleep lasts
    failures,             \* cycles in a row, up to now, that ended in an exception
    cycle_calls,          \* what the scheduler's current cycle has called so far
    persisted,            \* TRUE iff the snapshot fetched for the marker now in the marker
                          \* file went through both diffs and inserts without error
    manual_runs,          \* manual_update invocations so far
    run,                  \* the last diff run of the diff-engine harness
    retry,                \* one call through the aiohttp_retry wrapper
    top,                  \* the top-seller tables, the clock and the update calls in progress
    mfn,                  \* websocket_background_task and the connection it holds
    bot                   \* the bot argument the coroutines were started with

vars == <<db, last_known_file, files, pc, web_timestamp, last_known_timestamp,
          sleep, outcome, wait, failures, cycle_calls, persisted, manual_runs, run, retry, top, mfn,
          bot>>

\* the state of the tracker proper and of the diff-engine harness
tracker == <<db, last_known_file, files, pc, web_timestamp, last_known_timestamp,
             sleep, outcome, wait, failures, cycle_calls, persisted, manual_runs, run, bot>>

\* the tracker's state but for the connection, which the top-seller updates commit
tracker_files == <<last_known_file, files, pc, web_timestamp, last_known_timestamp,
                   sleep, outcome, wait, failures, cycle_calls, persisted, manual_runs, run,
                   bot>>

\* the state the tracker's own steps never touch
aux == <<retry, top, mfn, bot>>

Procs == {"update_fi_from_web", "manual_update"}

EmptyTables == [t \in Tables |-> << >>]

\* what SELECT * on db.conn returns: committed rows, then the rows of the
\* connection's own open transaction
read_sql(d, table) == d.store[table] \o d.txn[table]

\* ------------------------------------------------------- Persistence Sink
\* an insert that replaces the stored rows of the keys it writes (INSERT OR REPLACE)
insert_or_replace(d, input, table, raises_at) ==
    IF raises_at = NoFail
    THEN [store |-> [t \in Tables |->
                        IF t = table
                        THEN SelectSeq(d.store[t] \o d.txn[t],
                                       LAMBDA r : r.key \notin KeysOf(input)) \o input
                        ELSE d.store[t] \o d.txn[t]],
          txn |-> [t \in Tables |-> << >>],
          leaked |-> d.leaked + Len(d.txn["ShortPositions"]) + Len(d.txn["PositionHolders"])]
    ELSE [store |-> d.store,
          txn |-> [d.txn EXCEPT ![table] = @ \o SubSeq(input, 1, raises_at)],
          leaked |-> d.leaked]

\* Database.insert_bulk_data: executemany then commit.  raises_at = NoFail: every
\* row is inserted and the commit makes the whole open transaction durable.
\* raises_at = j: the call raises after j rows were executed (j = Len(input): the
\* commit itself raised); those rows stay in the open transaction, nothing is
\* rolled back.  leaked counts rows of failed batches that a later commit made durable.
insert_bulk_data(d, input, table, raises_at) ==
    IF raises_at = NoFail
    THEN [store |-> [t \in Tables |->
                        IF t = table THEN d.store[t] \o d.txn[t] \o input
                        ELSE d.store[t] \o d.txn[t]],
          txn |-> EmptyTables,
          leaked |-> d.leaked + Len(d.txn["ShortPositions"]) + Len(d.txn["PositionHolders"])]
    ELSE [store |-> d.store,
          txn |-> [d.txn EXCEPT ![table] = @ \o SubSeq(input, 1, raises_at)],
          leaked |-> d.leaked]

\* self.conn.commit() of any other method on the connection (update_appid,
\* update_ps_appid, create_tables, insert_bulk_data on a top-seller table): the
\* open transaction becomes durable, rows of failed batches included
commit(d) ==
    [store |-> [t \in Tables |-> d.store[t] \o d.txn[t]],
     txn |-> EmptyTables,
     leaked |-> d.leaked + Len(d.txn["ShortPositions"]) + Len(d.txn["PositionHolders"])]

\* Database.close (also __exit__) and a new Database on the file: the open
\* transaction is discarded
close(d) == [store |-> d.store, txn |-> EmptyTables, leaked |-> d.leaked]

\* ------------------------------------------------------------ environment
FileRow(k, v, d) == [key |-> k, position_percent |-> v, position_date |-> d]

\* what a download can leave on disk while the system runs: a sheet read_excel
\* accepts, with the rows it normalizes to; a sheet read_excel accepts and the
\* renaming of its columns rejects (too few columns); or bytes read_excel rejects
Sheet(s) == [state |-> "ok", rows |-> s]
Absent == [state |-> "absent", rows |-> << >>]
Rejected == [state |-> "bad", rows |-> << >>]
Malformed == [state |-> "malformed", rows |-> << >>]

\* download_file is the same for both files
RemoteContents(f) ==
    IF f = "DATA_AGG"
    THEN { Rejected,
           Malformed,
           Sheet(<< >>),
           Sheet(<<FileRow("k1", 100, 0)>>),
           Sheet(<<FileRow("k2", 206, 0), FileRow("k1", 206, 0)>>) }
    ELSE { Rejected,
           Malformed,
           Sheet(<< >>),
           Sheet(<<FileRow("k1", 100, 0)>>) }

\* what fetch_last_update_time can return
RemoteMarkers == Markers \cup {NoneTS, PLACEHOLDER, EMPTY}

Sched == "update_fi_from_web"
Manual == "manual_update"

\* ------------------------------------------------- Scheduler / Change gate
\* a gate that never finds the marker unchanged
timestamp_changed_always(web, last_known) == TRUE

\* the comparison at the end of is_timestamp_updated
timestamp_changed(web, last_known) == web # last_known

\* is_timestamp_updated after its fetch returned web
is_timestamp_updated(web, last_known) ==
    IF web = NoneTS THEN "none"
    ELSE IF web = PLACEHOLDER THEN "placeholder"
    ELSE IF timestamp_changed(web, last_known) THEN "updated"
    ELSE "unchanged"

\* the bot argument: a Discord client, or None
Bots == {"Client", "None"}

\* report_error_to_channel: bot.get_channel raises AttributeError when bot is
\* None; with a client error_message swallows whatever the send raises, so the
\* call returns whether or not the message was sent
report_error_to_channel(b, sent) == IF b = "None" THEN "raised" ELSE "returned"

\* the cycle outcomes reached through an except branch
ExceptionOutcomes == {"fetch_error", "download_error", "db_read_error", "embed_error"}

\* seconds a cycle can have taken when it reaches its sleep
Elapsed == {0, 450, 1000}

\* the argument of the asyncio.sleep the loop ends a cycle with, elapsed seconds
\* after next_check_time = now + DELAY_TIME was taken
sleep_seconds(s, elapsed) ==
    IF s = "DELAY_TIME" THEN DELAY_TIME
    ELSE IF s = "60+DELAY_TIME" THEN 60 + DELAY_TIME
    ELSE IF DELAY_TIME - elapsed > 0 THEN DELAY_TIME - elapsed ELSE 0

\* the count of failed cycles in a row after a cycle that ended with outcome o
failures_after(o) ==
    IF o \in ExceptionOutcomes
    THEN (IF failures < MaxFailures THEN failures + 1 ELSE failures)
    ELSE 0

\* a coroutine leaves its cycle: the loop goes to sleep, manual_update returns
Finish(p, o, s) ==
    /\ pc' = [pc EXCEPT ![p] = IF p = Sched THEN "Sleeping" ELSE "Idle"]
    /\ sleep' = IF p = Sched THEN s ELSE sleep
    /\ outcome' = IF p = Sched THEN o ELSE outcome
    /\ \E elapsed \in Elapsed :
         wait' = IF p = Sched THEN sleep_seconds(s, elapsed) ELSE wait
    /\ failures' = IF p = Sched THEN failures_after(o) ELSE failures

\* the error report a coroutine awaits raised: the exception leaves the coroutine
ReportRaised(p, o) ==
    /\ pc' = [pc EXCEPT ![p] = IF p = Sched THEN "Crashed" ELSE "Idle"]
    /\ sleep' = sleep
    /\ outcome' = IF p = Sched THEN o ELSE outcome
    /\ wait' = wait
    /\ failures' = failures

\* an except branch is entered: the coroutine awaits the error report; a report
\* that raises leaves the branch and ends the coroutine
Handled(p, o) ==
    \E sent \in BOOLEAN :
        IF report_error_to_channel(bot, sent) = "returned"
        THEN /\ pc' = [pc EXCEPT ![p] = "Reporting"]
             /\ outcome' = IF p = Sched THEN o ELSE outcome
             /\ UNCHANGED <<sleep, wait, failures>>
        ELSE ReportRaised(p, o)

\* the report of an except branch returns: the loop computes what is left until
\* next_check_time and sleeps, manual_update returns
Reported(p) ==
    /\ pc[p] = "Reporting"
    /\ Finish(p, outcome, "next_check_time")
    /\ UNCHANGED <<db, last_known_file, files, web_timestamp, last_known_timestamp,
                   cycle_calls, persisted, manual_runs, run, aux>>

\* one of the frames read is empty: the loop sleeps until next_check_time and
\* continues; manual_update's ctx.send raises NameError into its except branch
EmptyFrame(p) ==
    IF p = Sched THEN Finish(p, "read_failed", "next_check_time")
    ELSE Handled(p, "read_failed")

Calls(p, c) == cycle_calls' = IF p = Sched THEN cycle_calls \cup c ELSE cycle_calls

\* top of the while loop: open the session, read the marker file, start the fetch
CheckingMarker ==
    /\ pc[Sched] = "CheckingMarker"
    /\ last_known_timestamp' = last_known_file
    /\ pc' = [pc EXCEPT ![Sched] = "FetchingMarker"]
    /\ UNCHANGED <<db, last_known_file, files, web_timestamp, sleep, outcome, wait, failures,
                   cycle_calls, persisted, manual_runs, run, aux>>

\* fetch_last_update_time raised (retries exhausted): the loop's except branch
FetchMarkerFails ==
    /\ pc[Sched] \in {"FetchingMarker", "PlaceholderWait"}
    /\ Handled(Sched, "fetch_error")
    /\ UNCHANGED <<db, last_known_file, files, web_timestamp, last_known_timestamp,
                   cycle_calls, persisted, manual_runs, run, aux>>

\* is_timestamp_updated resumes with the fetched marker
FetchMarkerDone(web) ==
    /\ pc[Sched] \in {"FetchingMarker", "PlaceholderWait"}
    /\ web_timestamp' = [web_timestamp EXCEPT ![Sched] = web]
    /\ LET r == is_timestamp_updated(web, last_known_timestamp)
       IN  \/ /\ r = "none"
              /\ Finish(Sched, "no_marker",
                        IF pc[Sched] = "FetchingMarker" THEN "60+DELAY_TIME" ELSE "DELAY_TIME")
              /\ UNCHANGED last_known_file
           \/ /\ r = "placeholder"
              /\ pc' = [pc EXCEPT ![Sched] = "PlaceholderWait"]
              /\ UNCHANGED <<last_known_file, sleep, outcome, wait, failures>>
           \/ /\ r = "unchanged"
              /\ Finish(Sched, "unchanged", "DELAY_TIME")
              /\ UNCHANGED last_known_file
           \/ /\ r = "updated"
              /\ web # EMPTY
              /\ last_known_file' = web
              /\ pc' = [pc EXCEPT ![Sched] = "DownloadAgg"]
              /\ UNCHANGED <<sleep, outcome, wait, failures>>
           \* the marker '' is written and returned; the loop's "if not
           \* web_timestamp" takes it for no update and sleeps DELAY_TIME
           \/ /\ r = "updated"
              /\ web = EMPTY
              /\ last_known_file' = web
              /\ Finish(Sched, "no_marker", "DELAY_TIME")
    /\ persisted' = IF last_known_file' # last_known_file THEN FALSE ELSE persisted
    /\ UNCHANGED <<db, files, last_known_timestamp, cycle_calls, manual_runs, run, aux>>

\* asyncio.sleep returns: the iteration is over, its locals are gone
WakeUp ==
    /\ pc[Sched] = "Sleeping"
    /\ pc' = [pc EXCEPT ![Sched] = "CheckingMarker"]
    /\ sleep' = "none"
    /\ outcome' = "none"
    /\ wait' = 0
    /\ failures' = failures
    /\ cycle_calls' = {}
    /\ web_timestamp' = [web_timestamp EXCEPT ![Sched] = NoneTS]
    /\ last_known_timestamp' = NoneTS
    /\ UNCHANGED <<db, last_known_file, files, persisted, manual_runs, run, aux>>

\* the task is cancelled while it waits: CancelledError ends the loop
Cancel ==
    /\ pc[Sched] \notin {"Ended", "Crashed"}
    /\ pc' = [pc EXCEPT ![Sched] = "Ended"]
    /\ UNCHANGED <<db, last_known_file, files, web_timestamp, last_known_timestamp,
                   sleep, outcome, wait, failures, cycle_calls, persisted, manual_runs, run, aux>>

\* ------------------------------------------------------------ manual_update
ManualStart ==
    /\ pc[Manual] = "Idle"
    /\ manual_runs < MaxManual
    /\ manual_runs' = manual_runs + 1
    /\ pc' = [pc EXCEPT ![Manual] = "FetchingMarker"]
    /\ UNCHANGED <<db, last_known_file, files, web_timestamp, last_known_timestamp,
                   sleep, outcome, wait, failures, cycle_calls, persisted, run, aux>>

\* the fetch raised, or returned None, the marker '' or the placeholder (the
\* ctx.send of that branch raises NameError): manual_update's except branch
ManualNoMarker ==
    /\ pc[Manual] = "FetchingMarker"
    /\ Handled(Manual, "fetch_error")
    /\ UNCHANGED <<db, last_known_file, files, web_timestamp, last_known_timestamp,
                   cycle_calls, persisted, manual_runs, run, aux>>

ManualFetchMarkerDone(web) ==
    /\ pc[Manual] = "FetchingMarker"
    /\ web \in Markers
    /\ web_timestamp' = [web_timestamp EXCEPT ![Manual] = web]
    /\ pc' = [pc EXCEPT ![Manual] = "DownloadAgg"]
    /\ UNCHANGED <<db, last_known_file, files, last_known_timestamp,
                   sleep, outcome, wait, failures, cycle_calls, persisted, manual_runs, run, aux>>

\* ------------------------------------------ fetch, normalize, diff, persist
\* download_file(DATA_AGG) resumes: the sheet is written, the second download starts
DownloadAggDone(p, c) ==
    /\ pc[p] = "DownloadAgg"
    /\ files' = [files EXCEPT !.DATA_AGG = c]
    /\ pc' = [pc EXCEPT ![p] = "DownloadAct"]
    /\ Calls(p, {"download"})
    /\ UNCHANGED <<db, last_known_file, web_timestamp, last_known_timestamp,
                   sleep, outcome, wait, failures, persisted, manual_runs, run, aux>>

\* fetch_url raised inside download_file
DownloadFails(p) ==
    /\ pc[p] \in {"DownloadAgg", "DownloadAct"}
    /\ Handled(p, "download_error")
    /\ UNCHANGED <<db, last_known_file, files, web_timestamp, last_known_timestamp,
                   cycle_calls, persisted, manual_runs, run, aux>>

\* fetch_url returned text (a Content-Type with 'text', 'json' or 'xml'):
\* download_file has opened the file with 'wb', which leaves it empty, and
\* f.write(str) raises TypeError into the except branch
DownloadWriteFails(p) ==
    /\ pc[p] \in {"DownloadAgg", "DownloadAct"}
    /\ files' = IF pc[p] = "DownloadAgg" THEN [files EXCEPT !.DATA_AGG = Rejected]
                ELSE [files EXCEPT !.DATA_ACT = Rejected]
    /\ Handled(p, "download_error")
    /\ Calls(p, {"download"})
    /\ UNCHANGED <<db, last_known_file, web_timestamp, last_known_timestamp,
                   persisted, manual_runs, run, aux>>

\* read_aggregate_data / read_current_data: the frame returned, the file afterwards
\* (removed once read_excel accepted it, left alone when read_excel raises), and
\* whether the except branch is taken, which awaits the error report
read_data(f) == IF f.state = "ok" THEN f.rows ELSE << >>
after_read(f) == IF f.state \in {"ok", "malformed"} THEN Absent ELSE f
read_raises(f) == f.state # "ok"

\* a read function's except branch calls report_error_to_channel: the coroutine
\* awaits the report at pc at; a report that raises leaves the read function for
\* the caller's except branch, whose own report raises as well
ReadReports(p, at) ==
    \E sent \in BOOLEAN :
        IF report_error_to_channel(bot, sent) = "returned"
        THEN /\ pc' = [pc EXCEPT ![p] = at]
             /\ UNCHANGED <<sleep, outcome, wait, failures>>
        ELSE ReportRaised(p, "read_failed")

\* download_file(DATA_ACT) resumes and read_aggregate_data raises: it awaits the
\* error report before read_current_data runs
ReadAggFails(p, c) ==
    /\ pc[p] = "DownloadAct"
    /\ read_raises(files.DATA_AGG)
    /\ files' = [DATA_AGG |-> after_read(files.DATA_AGG), DATA_ACT |-> c]
    /\ ReadReports(p, "ReadAggFailed")
    /\ Calls(p, {"download", "normalize"})
    /\ UNCHANGED <<db, last_known_file, web_timestamp, last_known_timestamp,
                   persisted, manual_runs, run, aux>>

\* ... the report returns and read_current_data reads the file now on disk: the
\* cycle is given up (new_data_agg.empty), after a second report when
\* read_current_data raises too
ReadActAfterAggFailed(p) ==
    /\ pc[p] = "ReadAggFailed"
    /\ IF read_raises(files.DATA_ACT)
       THEN /\ files' = [files EXCEPT !.DATA_ACT = after_read(@)]
            /\ ReadReports(p, "ReadActFailed")
       ELSE /\ files' = [files EXCEPT !.DATA_ACT = after_read(@)]
            /\ EmptyFrame(p)
    /\ UNCHANGED <<db, last_known_file, web_timestamp, last_known_timestamp,
                   cycle_calls, persisted, manual_runs, run, aux>>

\* download_file(DATA_ACT) resumes, read_aggregate_data returns its frame and
\* read_current_data raises: it awaits the error report
ReadActFails(p, c) ==
    /\ pc[p] = "DownloadAct"
    /\ ~read_raises(files.DATA_AGG)
    /\ read_raises(c)
    /\ files' = [DATA_AGG |-> Absent, DATA_ACT |-> after_read(c)]
    /\ ReadReports(p, "ReadActFailed")
    /\ Calls(p, {"download", "normalize"})
    /\ UNCHANGED <<db, last_known_file, web_timestamp, last_known_timestamp,
                   persisted, manual_runs, run, aux>>

\* ... the report returns: the cycle is given up (new_data_act.empty)
ReadActReported(p) ==
    /\ pc[p] = "ReadActFailed"
    /\ EmptyFrame(p)
    /\ UNCHANGED <<db, last_known_file, files, web_timestamp, last_known_timestamp,
                   cycle_calls, persisted, manual_runs, run, aux>>

\* both files are read without an exception; one of the frames is empty: the
\* cycle is given up
ReadFails(p, c) ==
    /\ pc[p] = "DownloadAct"
    /\ ~read_raises(files.DATA_AGG)
    /\ ~read_raises(c)
    /\ read_data(files.DATA_AGG) = << >> \/ read_data(c) = << >>
    /\ files' = [DATA_AGG |-> Absent, DATA_ACT |-> after_read(c)]
    /\ EmptyFrame(p)
    /\ Calls(p, {"download", "normalize"})
    /\ UNCHANGED <<db, last_known_file, web_timestamp, last_known_timestamp,
                   persisted, manual_runs, run, aux>>

\* a check that lets empty frames through
BothReadUnchecked(p, c) ==
    /\ pc[p] = "DownloadAct"
    /\ ~read_raises(files.DATA_AGG)
    /\ ~read_raises(c)

\* both files are read and neither frame is empty (new_data_agg.empty or
\* new_data_act.empty is False)
BothRead(p, c) ==
    /\ pc[p] = "DownloadAct"
    /\ ~read_raises(files.DATA_AGG)
    /\ ~read_raises(c)
    /\ read_data(files.DATA_AGG) # << >>
    /\ read_data(c) # << >>

\* pd.read_sql raised
DbReadFails(p, c) ==
    /\ BothRead(p, c)
    /\ files' = [DATA_AGG |-> Absent, DATA_ACT |-> Absent]
    /\ Handled(p, "db_read_error")
    /\ Calls(p, {"download", "normalize"})
    /\ UNCHANGED <<db, last_known_file, web_timestamp, last_known_timestamp,
                   persisted, manual_runs, run, aux>>

\* manual_update writes the marker file after reading old data, before send_embed
ManualMarkerWrite(p) ==
    last_known_file' = IF p = Manual /\ web_timestamp[p] # last_known_file
                       THEN web_timestamp[p] ELSE last_known_file

\* ------------------------------------------------------------- send_embed
\* send_embed as the caller awaits it: update_database_diff runs first and its
\* KeyError leaves send_embed for the caller's except branch, the files read and
\* removed, manual_update's marker written.  Past the two diff functions (their
\* inserts are the subject of the store harness) the embeds are sent and the
\* caller's cycle completes
SendEmbed(p, c) ==
    /\ BothRead(p, c)
    /\ files' = [DATA_AGG |-> Absent, DATA_ACT |-> Absent]
    /\ ManualMarkerWrite(p)
    /\ \E old_agg \in latest_per_key(FromDb(read_sql(db, "ShortPositions"))) :
         LET agg == update_database_diff(old_agg, read_data(files.DATA_AGG), web_timestamp[p])
             db1 == IF agg.new_rows = << >> THEN db
                    ELSE insert_bulk_data(db, agg.new_rows, "ShortPositions", NoFail)
         IN  IF agg.raised
             THEN /\ db' = db
                  /\ Handled(p, "embed_error")
                  /\ persisted' = IF last_known_file' # last_known_file THEN FALSE ELSE persisted
                  /\ Calls(p, {"download", "normalize", "diff"})
             ELSE \E old_act \in latest_per_key(FromDb(read_sql(db, "PositionHolders"))) :
                    LET act == update_position_holders(old_act, read_data(c), web_timestamp[p])
                    IN  IF act.raised
                        THEN /\ db' = db1
                             /\ Handled(p, "embed_error")
                             /\ persisted' = IF last_known_file' # last_known_file
                                             THEN FALSE ELSE persisted
                             /\ Calls(p, {"download", "normalize", "diff", "insert"})
                        ELSE /\ db' = IF act.new_rows = << >> THEN db1
                                      ELSE insert_bulk_data(db1, act.new_rows,
                                                            "PositionHolders", NoFail)
                             /\ Finish(p, "completed", "next_check_time")
                             /\ persisted' = IF last_known_file' = web_timestamp[p]
                                             THEN TRUE ELSE persisted
                             /\ Calls(p, {"download", "normalize", "diff", "insert"})
    /\ UNCHANGED <<web_timestamp, last_known_timestamp, manual_runs, run, aux>>

\* ------------------------------------------------------ diff-engine harness
\* the rows a snapshot handed to the diff functions can hold
HarnessRows ==
    { FileRow("k1", 4, 1), FileRow("k1", 100, 0), FileRow("k1", 206, 0),
      FileRow("k1", 100, MaxDay * SlotsPerDay), FileRow("k2", 100, 0) }

RECURSIVE SeqsUpTo(_, _)
SeqsUpTo(S, n) ==
    IF n = 0 THEN {<< >>}
    ELSE LET shorter == SeqsUpTo(S, n - 1)
         IN  shorter \cup {Append(q, x) : q \in {r \in shorter : Len(r) = n - 1}, x \in S}

HarnessSnapshots == SeqsUpTo(HarnessRows, MaxSnap)

HarnessFits(d) ==
    Len(d.store["ShortPositions"]) + Len(d.txn["ShortPositions"])
      + Len(d.store["PositionHolders"]) + Len(d.txn["PositionHolders"]) <= MaxHistory

IdleRun(t) ==
    [phase |-> "idle", table |-> t, snapshot |-> << >>, timestamp |-> NoneTS,
     before |-> << >>, res |-> EmptyDiff, between |-> << >>, again |-> EmptyDiff]

\* one call of the table's diff function with its insert
DiffCall(d, table, old, s, ts) ==
    LET res == diff_of(table, old, s, ts)
    IN  [res |-> res,
         db |-> IF res.new_rows = << >> THEN d
                ELSE insert_bulk_data(d, res.new_rows, table, NoFail)]

\* the table's diff function is called on snapshot s with marker ts against the
\* stored history (rows before), and at once a second time on the same snapshot
\* and marker against the history the first call left (rows between)
DiffRun(s, ts) ==
    /\ run.phase = "idle"
    /\ \E old \in latest_per_key(FromDb(read_sql(db, run.table))) :
       \E first \in {r \in {DiffCall(db, run.table, old, s, ts)} : HarnessFits(r.db)} :
       \E old_again \in latest_per_key(FromDb(read_sql(first.db, run.table))) :
       \E second \in {DiffCall(first.db, run.table, old_again, s, ts)} :
         /\ HarnessFits(second.db)
         /\ db' = second.db
         /\ run' = [phase |-> "ran", table |-> run.table, snapshot |-> s,
                    timestamp |-> ts,
                    before |-> read_sql(db, run.table), res |-> first.res,
                    between |-> read_sql(first.db, run.table),
                    again |-> second.res]
    /\ UNCHANGED <<last_known_file, files, pc, web_timestamp, last_known_timestamp,
                   sleep, outcome, wait, failures, cycle_calls, persisted, manual_runs, aux>>

\* the harness forgets the run; the store it left is the next stored history
DiffReset ==
    /\ run.phase = "ran"
    /\ run' = IdleRun(run.table)
    /\ UNCHANGED <<db, last_known_file, files, pc, web_timestamp, last_known_timestamp,
                   sleep, outcome, wait, failures, cycle_calls, persisted, manual_runs, aux>>

\* ------------------------------------------------------------ store harness
\* the rows a batch handed to insert_bulk_data can hold: records of a position,
\* and the record of a drop (position_percent 0)
DbRows ==
    {[key |-> k, position_percent |-> 100, position_date |-> 0, timestamp |-> t] :
        k \in Keys, t \in Markers}
    \cup {[key |-> "k1", position_percent |-> 0, position_date |-> 0, timestamp |-> 1]}

DbBatches == SeqsUpTo(DbRows, MaxSnap) \ {<< >>}

\* one call of Database.insert_bulk_data(input, table) on the connection
DbInsert(input, table, raises_at) ==
    /\ run.phase = "idle"
    /\ HarnessFits(insert_bulk_data(db, input, table, raises_at))
    /\ db' = insert_bulk_data(db, input, table, raises_at)
    /\ UNCHANGED <<last_known_file, files, pc, web_timestamp, last_known_timestamp,
                   sleep, outcome, wait, failures, cycle_calls, persisted, manual_runs,
                   run, aux>>

\* another method of the Database object commits the connection
DbCommit ==
    /\ run.phase = "idle"
    /\ db' = commit(db)
    /\ UNCHANGED <<last_known_file, files, pc, web_timestamp, last_known_timestamp,
                   sleep, outcome, wait, failures, cycle_calls, persisted, manual_runs,
                   run, aux>>

\* the Database object is closed and the file opened again
DbClose ==
    /\ run.phase = "idle"
    /\ db' = close(db)
    /\ UNCHANGED <<last_known_file, files, pc, web_timestamp, last_known_timestamp,
                   sleep, outcome, wait, failures, cycle_calls, persisted, manual_runs,
                   run, aux>>

\* ------------------------------------------------------------ aiohttp_retry
RECURSIVE Pow2(_)
Pow2(n) == IF n = 0 THEN 1 ELSE 2 * Pow2(n - 1)

Min(a, b) == IF a <= b THEN a ELSE b

\* the decorator arguments in use: fetch_url and fetch_last_update_time,
\* update_fi_from_web, and the defaults (delays in seconds); then the defaults
\* with one and with two attempts
RetryConfigs ==
    { [retries |-> 5, base_delay |-> 5, max_delay |-> 120],
      [retries |-> 5, base_delay |-> 15, max_delay |-> 300],
      [retries |-> 5, base_delay |-> 15, max_delay |-> 120],
      [retries |-> 1, base_delay |-> 15, max_delay |-> 120],
      [retries |-> 2, base_delay |-> 15, max_delay |-> 120] }

\* the arguments of the decorator on update_fi_from_web
LoopRetry == [retries |-> 5, base_delay |-> 15, max_delay |-> 300]

\* samples of random.random(), in hundredths: 0.0, 0.25, 0.5, 0.99
RandomValues == {0, 25, 50, 99}

\* min(max_delay, base_delay * 2 ** attempt)
capped_delay(cfg, attempt) == Min(cfg.max_delay, cfg.base_delay * Pow2(attempt))

\* delay = min(max_delay, base_delay * 2 ** attempt) * (0.5 + random.random()),
\* in hundredths of a second
backoff_delay(cfg, attempt, rnd) == capped_delay(cfg, attempt) * (50 + rnd)

IdleRetry ==
    [pc |-> "idle", cfg |-> [retries |-> 0, base_delay |-> 0, max_delay |-> 0],
     attempt |-> 0, calls |-> 0, delay |-> 0, slept |-> << >>]

\* the wrapper is entered: for attempt in range(retries), first call of func
RetryStart(cfg) ==
    /\ retry.pc = "idle"
    /\ retry' = [IdleRetry EXCEPT !.pc = "calling", !.cfg = cfg, !.calls = 1]
    /\ UNCHANGED <<tracker, top, mfn>>

\* func returns: the wrapper returns its value
RetryCallReturns ==
    /\ retry.pc = "calling"
    /\ retry' = [retry EXCEPT !.pc = "returned"]
    /\ UNCHANGED <<tracker, top, mfn>>

\* a test for the last attempt that is one attempt late
last_attempt_late(cfg, attempt) == attempt = cfg.retries

\* if attempt == retries - 1
last_attempt(cfg, attempt) == attempt = cfg.retries - 1

\* func raises aiohttp.ClientError: re-raised on the last attempt, else the delay
\* is computed and slept
RetryCallFails(rnd) ==
    /\ retry.pc = "calling"
    /\ IF last_attempt(retry.cfg, retry.attempt)
       THEN retry' = [retry EXCEPT !.pc = "raised"]
       ELSE retry' = [retry EXCEPT !.pc = "sleeping",
                                   !.delay = backoff_delay(retry.cfg, retry.attempt, rnd),
                                   !.slept = Append(@, backoff_delay(retry.cfg, retry.attempt, rnd))]
    /\ UNCHANGED <<tracker, top, mfn>>

\* func raises anything else: the except clause does not match
RetryCallRaisesOther ==
    /\ retry.pc = "calling"
    /\ retry' = [retry EXCEPT !.pc = "raised_other"]
    /\ UNCHANGED <<tracker, top, mfn>>

\* asyncio.sleep(delay) returns: next attempt
RetryWake ==
    /\ retry.pc = "sleeping"
    /\ retry' = [retry EXCEPT !.pc = "calling", !.attempt = @ + 1, !.calls = @ + 1]
    /\ UNCHANGED <<tracker, top, mfn>>

\* the call is over; the wrapper can be entered again
RetryDone ==
    /\ retry.pc \in {"returned", "raised", "raised_other"}
    /\ retry' = IdleRetry
    /\ UNCHANGED <<tracker, top, mfn>>

\* ------------------------------------------------------ top-seller updates
TopTables == {"SteamTopGames", "PSTopGames"}

\* the coroutines that call update_steam_top_sellers and update_ps_top_sellers
SteamTasks == {"daily_steam_database_refresh", "SteamPipeline", "gts_command"}
PsTasks == {"daily_ps_database_refresh", "gtsps_command"}

\* the write_db argument of the caller
write_db(t) == t # "gts_command"

\* the pages update_ps_top_sellers fetches, one after the other
TOTAL_PAGES == 10

\* a call's locals: page counts the PlayStation pages fetched so far, games is
\* TRUE once a page listed a game
IdleCall ==
    [pc |-> "idle", latest |-> NoneTS, now_hour |-> 0, timestamp |-> 0,
     page |-> 0, games |-> FALSE]

\* an 'YYYY-MM-DD HH' timestamp is the integer rank of its hour; a table is the
\* sequence of the timestamps of the batches inserted into it; calls counts the
\* update calls made so far
IdleTop ==
    [clock |-> 1,
     calls |-> 0,
     table |-> [t \in TopTables |-> << >>],
     call |-> [t \in SteamTasks \cup PsTasks |-> IdleCall]]

\* Database.get_latest_timestamp: SELECT MAX(timestamp), None for an empty table
get_latest_timestamp(batches) ==
    IF batches = << >> THEN NoneTS
    ELSE CHOOSE m \in {batches[i] : i \in DOMAIN batches} :
            \A i \in DOMAIN batches : batches[i] <= m

\* latest is not None and now_hour - latest < timedelta(hours=1)
recent(latest, now_hour) == latest # NoneTS /\ now_hour - latest < 1

\* the clock reaches the next hour
TopTick ==
    /\ top.clock < MaxHour
    /\ top' = [top EXCEPT !.clock = @ + 1]
    /\ UNCHANGED <<tracker, retry, mfn>>

\* update_steam_top_sellers is called: it reads the latest stored timestamp and
\* the current hour, then awaits the pages
SteamStart(t) ==
    /\ top.call[t].pc = "idle"
    /\ Len(top.table["SteamTopGames"]) < MaxBatches
    /\ top.calls < MaxCalls
    /\ top' = [top EXCEPT !.calls = @ + 1, !.call[t] =
                  [IdleCall EXCEPT
                     !.pc = "fetching",
                     !.latest = get_latest_timestamp(top.table["SteamTopGames"]),
                     !.now_hour = top.clock]]
    /\ UNCHANGED <<tracker, retry, mfn>>

\* the pages are read: without metadata the call returns; otherwise update_appid
\* commits the connection for a title it does not know, and the call awaits the
\* player counts
SteamPages(t, fetched, new_title) ==
    /\ t \in SteamTasks
    /\ top.call[t].pc = "fetching"
    /\ IF fetched
       THEN /\ top' = [top EXCEPT !.call[t].pc = "ccu", !.call[t].games = TRUE]
            /\ db' = IF new_title THEN commit(db) ELSE db
       ELSE /\ top' = [top EXCEPT !.call[t] = IdleCall]
            /\ db' = db
    /\ UNCHANGED <<tracker_files, retry, mfn>>

\* how insert_bulk_data ends on a top-seller table: executemany and commit go
\* through, or executemany raises at its first row, or at a later one (a value
\* sqlite3 cannot bind, such as a player count that is a list)
InsertResults == {"stored", "raised_at_first", "raised_later"}

\* asyncio.gather of the fetch_ccu calls resumes: the batch is stamped with the
\* hour it is now, and inserted (and committed) unless the timestamp read at the
\* start was recent or the caller passed write_db = False; an insert that raises
\* ends the call with the exception: the rows executed before the raise are in the
\* open transaction, where get_latest_timestamp reads them, and the commit is not
\* reached
SteamFinish(t, result) ==
    /\ t \in SteamTasks
    /\ top.call[t].pc = "ccu"
    /\ LET c == top.call[t]
           ts == top.clock
           inserts == ~recent(c.latest, c.now_hour) /\ write_db(t)
       IN  /\ inserts \/ result = "stored"
           /\ top' = [top EXCEPT
                        !.call[t] = IdleCall,
                        !.table["SteamTopGames"] =
                           IF inserts /\ result # "raised_at_first"
                           THEN Append(@, ts) ELSE @]
           /\ db' = IF inserts /\ result = "stored" THEN commit(db) ELSE db
    /\ UNCHANGED <<tracker_files, retry, mfn>>

\* update_ps_top_sellers is called: it takes the batch's timestamp, then awaits
\* the first page
PsStart(t) ==
    /\ top.call[t].pc = "idle"
    /\ Len(top.table["PSTopGames"]) < MaxBatches
    /\ top.calls < MaxCalls
    /\ top' = [top EXCEPT !.calls = @ + 1, !.call[t] =
                  [IdleCall EXCEPT !.pc = "fetching", !.timestamp = top.clock]]
    /\ UNCHANGED <<tracker, retry, mfn>>

\* fetch_page_content raised after its retries: the call ends with the exception,
\* what update_ps_appid committed for the earlier pages stays committed
PsFails(t) ==
    /\ t \in PsTasks
    /\ top.call[t].pc = "fetching"
    /\ top' = [top EXCEPT !.call[t] = IdleCall]
    /\ UNCHANGED <<tracker, retry, mfn>>

\* past the last page: the latest stored timestamp and the current hour are taken
\* now, and the games are inserted under the timestamp taken at the start unless
\* the latest one is recent (an empty list of games inserts no row, and commits).
\* The ways the call can end: an insert with rows to bind can raise, which leaves
\* the rows executed before it in the open transaction and skips the commit
ps_store(tp, d, t, games) ==
    LET latest_timestamp == get_latest_timestamp(tp.table["PSTopGames"])
        current_time == tp.clock
        inserts == ~recent(latest_timestamp, current_time)
        results == IF games /\ inserts THEN InsertResults ELSE {"stored"}
    IN  { [top |-> [tp EXCEPT
                      !.call[t] = IdleCall,
                      !.table["PSTopGames"] =
                         IF games /\ inserts /\ result # "raised_at_first"
                         THEN Append(@, tp.call[t].timestamp) ELSE @],
           db |-> IF inserts /\ result = "stored" THEN commit(d) ELSE d] :
          result \in results }

\* fetch_page_content resumes with the next page.  A page with content: for each
\* game it lists update_ps_appid commits the connection if the game is not known,
\* then the call awaits asyncio.sleep(0.1) and, but for the last page, the next
\* fetch.  A page without content: the loop continues without the sleep, past
\* the last page straight to the insert
PsPage(t, content, listed, new_game) ==
    /\ t \in PsTasks
    /\ top.call[t].pc = "fetching"
    /\ LET c == top.call[t]
           last == c.page + 1 = TOTAL_PAGES
       IN  IF content
           THEN /\ top' = [top EXCEPT !.call[t].page = c.page + 1,
                                      !.call[t].games = c.games \/ listed,
                                      !.call[t].pc = IF last THEN "sleeping" ELSE "fetching"]
                /\ db' = IF listed /\ new_game THEN commit(db) ELSE db
           ELSE IF last
           THEN \E stored \in ps_store(top, db, t, c.games) :
                   top' = stored.top /\ db' = stored.db
           ELSE /\ top' = [top EXCEPT !.call[t].page = c.page + 1]
                /\ db' = db
    /\ UNCHANGED <<tracker_files, retry, mfn>>

\* fetch_page_content resumes with a page, the last one included, that lists a
\* game whose ps_id the table PSGameTranslation cannot take (an entry without id
\* is given 'N/A', the column is INTEGER PRIMARY KEY): update_ps_appid raises
\* IntegrityError on its INSERT and the call ends with the exception, nothing
\* inserted.  What update_ps_appid committed for the games listed before it
\* stays committed
PsAppidRaises(t, new_game) ==
    /\ t \in PsTasks
    /\ top.call[t].pc = "fetching"
    /\ top' = [top EXCEPT !.call[t] = IdleCall]
    /\ db' = IF new_game THEN commit(db) ELSE db
    /\ UNCHANGED <<tracker_files, retry, mfn>>

\* the sleep after the last page returns
PsFinish(t) ==
    /\ t \in PsTasks
    /\ top.call[t].pc = "sleeping"
    /\ \E stored \in ps_store(top, db, t, top.call[t].games) :
         top' = stored.top /\ db' = stored.db
    /\ UNCHANGED <<tracker_files, retry, mfn>>

\* --------------------------------------------------------- MFN websocket
\* websocket_background_task before its first connection attempt.  wait_time is
\* in tenths of a second; manual_ping_out_at is kept as the seconds of wall clock
\* since the manual ping (NoneTS: no ping outstanding); event is how the last
\* fetch_mfn_updates call ended; timeouts counts the receive timeouts since the
\* last frame of the connection and worked tells whether it delivered a frame
IdleMfn ==
    [pc |-> "connecting", attempt_count |-> 0, consecutive_1006 |-> 0, wait_time |-> 0,
     event |-> "none", manual_ping_out_at |-> NoneTS, grace_elapsed |-> 0,
     timeouts |-> 0, worked |-> FALSE]

\* close codes a ConnectionClosed can carry: fast reconnect, abnormal closure,
\* going away
CloseCodes == {3000, 1006, 1001}

\* samples of random.uniform(0, 0.4 * backoff_core), in percent of backoff_core
JitterPercents == {0, 20, 40}

\* seconds of wall clock (datetime.utcnow) that pass during a receive timeout:
\* the timeout itself, or less when the clock was set back meanwhile
WallElapsed == {INACTIVITY_FRAME_TIMEOUT_SECONDS, 5}

\* BASE_BACKOFF_SECONDS * 2 ** (min(attempt_count, 10) - 1), capped at 8 s for
\* one of the first three 1006 closes in a row
backoff_core(attempt_count, code, consecutive_1006) ==
    LET core == BASE_BACKOFF_SECONDS * Pow2(Min(attempt_count, 10) - 1)
    IN  IF code = 1006 /\ consecutive_1006 <= 3 THEN Min(core, 80) ELSE core

\* the backoff with its jitter and without the cap
backoff_uncapped(core, jitter) == core + (core * jitter) \div 100

\* wait_time = min(backoff_core + jitter, MAX_RECONNECT_WAIT_SECONDS)
backoff_wait(core, jitter) ==
    Min(core + (core * jitter) \div 100, MAX_RECONNECT_WAIT_SECONDS)

\* the close code an except branch of the task was entered with, as the event
\* records it (0: an exception that is no ConnectionClosed)
code_of(event) == IF event = "closed_1006" THEN 1006 ELSE IF event = "closed_other" THEN 1001 ELSE 0

\* the except branches for a close other than 3000 and for an unhandled error,
\* past their awaited error_message: attempt_count moves, the wait is computed,
\* the task sleeps
general_error(jitter) ==
    LET attempt == mfn.attempt_count + 1
    IN  [mfn EXCEPT !.pc = "sleeping", !.attempt_count = attempt,
                    !.wait_time = backoff_wait(backoff_core(attempt, code_of(mfn.event),
                                                            mfn.consecutive_1006), jitter)]

\* asyncio.sleep(wait_time) returns: next connection attempt
MfnWake ==
    /\ mfn.pc = "sleeping"
    /\ mfn' = [mfn EXCEPT !.pc = "connecting", !.wait_time = 0]
    /\ UNCHANGED <<tracker, retry, top>>

\* connect() succeeds: fetch_mfn_updates enters its receive loop
MfnConnected ==
    /\ mfn.pc = "connecting"
    /\ mfn' = [mfn EXCEPT !.pc = "listening", !.manual_ping_out_at = NoneTS,
                          !.grace_elapsed = 0, !.timeouts = 0, !.worked = FALSE]
    /\ UNCHANGED <<tracker, retry, top>>

\* connect() raises (InvalidHandshake, OSError): the unhandled-error branch awaits
\* its error_message
MfnConnectFails ==
    /\ mfn.pc = "connecting"
    /\ mfn.attempt_count < MaxAttempt
    /\ mfn' = [mfn EXCEPT !.pc = "reporting", !.event = "error"]
    /\ UNCHANGED <<tracker, retry, top>>

\* the error_message awaited in an except branch of the task returns
MfnReported(jitter) ==
    /\ mfn.pc = "reporting"
    /\ mfn' = general_error(jitter)
    /\ UNCHANGED <<tracker, retry, top>>

\* ws.recv() returns a frame: the manual ping tracking is reset, the frame is
\* parsed and its items are sent
MfnFrame ==
    /\ mfn.pc = "listening"
    /\ mfn' = [mfn EXCEPT !.manual_ping_out_at = NoneTS, !.grace_elapsed = 0,
                          !.timeouts = 0, !.worked = TRUE]
    /\ UNCHANGED <<tracker, retry, top>>

\* processing a received frame raises: reported and re-raised to the task, whose
\* unhandled-error branch awaits its own error_message
MfnFrameError ==
    /\ mfn.pc = "listening"
    /\ mfn.attempt_count < MaxAttempt
    /\ mfn' = [mfn EXCEPT !.pc = "reporting", !.event = "error",
                          !.manual_ping_out_at = NoneTS, !.grace_elapsed = 0,
                          !.timeouts = 0, !.worked = TRUE]
    /\ UNCHANGED <<tracker, retry, top>>

\* a watchdog that closes on any receive timeout
watchdog_closes_at_once(manual_ping_out_at, grace_elapsed) == TRUE

\* the close test of the timeout handler: a manual ping is outstanding and the
\* grace period since it is over
watchdog_closes(manual_ping_out_at, grace_elapsed) ==
    manual_ping_out_at # NoneTS /\ ~(grace_elapsed < MANUAL_PING_GRACE_SECONDS)

\* asyncio.wait_for(ws.recv()) times out, elapsed seconds of wall clock after the
\* wait began: the watchdog awaits ws.close(code=4000); or a manual ping is sent
\* and recorded; or the grace period is waited out
MfnTimeout(elapsed) ==
    /\ mfn.pc = "listening"
    /\ LET grace == IF mfn.manual_ping_out_at = NoneTS THEN 0
                    ELSE mfn.manual_ping_out_at + elapsed
       IN  IF watchdog_closes(mfn.manual_ping_out_at, grace)
           THEN mfn' = [mfn EXCEPT !.pc = "closing", !.grace_elapsed = grace,
                                   !.timeouts = @ + 1]
           ELSE mfn' = [mfn EXCEPT !.manual_ping_out_at = grace,
                                   !.grace_elapsed = grace, !.timeouts = @ + 1]
    /\ UNCHANGED <<tracker, retry, top>>

\* ws.close returns, InactivityWatchdog is raised: the task's soft-restart branch
\* resets the counters and sleeps two seconds
MfnWatchdog ==
    /\ mfn.pc = "closing"
    /\ mfn' = [mfn EXCEPT !.pc = "sleeping", !.event = "watchdog",
                          !.attempt_count = 0, !.consecutive_1006 = 0, !.wait_time = 20]
    /\ UNCHANGED <<tracker, retry, top>>

\* ws.recv() raises ConnectionClosed with the given code: a fast reconnect sleeps
\* at once; any other close moves consecutive_1006 and awaits error_message
MfnClosed(code) ==
    /\ mfn.pc = "listening"
    /\ IF code = 3000
       THEN mfn' = [mfn EXCEPT !.pc = "sleeping", !.event = "closed_3000",
                               !.wait_time = FAST_RECONNECT_DELAY_SECONDS,
                               !.consecutive_1006 = 0]
       ELSE /\ mfn.attempt_count < MaxAttempt
            /\ mfn' = [mfn EXCEPT !.pc = "reporting",
                                  !.event = IF code = 1006 THEN "closed_1006"
                                            ELSE "closed_other",
                                  !.consecutive_1006 = IF code = 1006 THEN @ + 1 ELSE 0]
    /\ UNCHANGED <<tracker, retry, top>>

\* ---------------------------------------------------------- specifications
InitRest(t) ==
    /\ last_known_file = NoneTS
    /\ files = [DATA_AGG |-> Absent, DATA_ACT |-> Absent]
    /\ pc = [p \in Procs |-> IF p = Sched THEN "CheckingMarker" ELSE "Idle"]
    /\ web_timestamp = [p \in Procs |-> NoneTS]
    /\ last_known_timestamp = NoneTS
    /\ sleep = "none"
    /\ outcome = "none"
    /\ wait = 0
    /\ failures = 0
    /\ cycle_calls = {}
    /\ persisted = FALSE
    /\ manual_runs = 0
    /\ run = IdleRun(t)
    /\ retry = IdleRetry
    /\ top = IdleTop
    /\ mfn = IdleMfn

InitWith(t) ==
    /\ db = [store |-> EmptyTables, txn |-> EmptyTables, leaked |-> 0]
    /\ bot \in Bots
    /\ InitRest(t)

Init == InitWith("ShortPositions")

\* the bot starts on a database file that already holds rows of one table
InitStored ==
    /\ \E input \in DbBatches, table \in Tables :
         db = insert_bulk_data([store |-> EmptyTables, txn |-> EmptyTables, leaked |-> 0],
                               input, table, NoFail)
    /\ bot \in Bots
    /\ InitRest("ShortPositions")

\* the harness calls the diff functions with a client
InitDiff ==
    \E t \in Tables :
        /\ db = [store |-> EmptyTables, txn |-> EmptyTables, leaked |-> 0]
        /\ bot = "Client"
        /\ InitRest(t)

Cycle(p) ==
    \/ \E c \in RemoteContents("DATA_AGG") : DownloadAggDone(p, c)
    \/ DownloadFails(p)
    \/ DownloadWriteFails(p)
    \/ Reported(p)
    \/ \E c \in RemoteContents("DATA_ACT") : ReadAggFails(p, c)
    \/ ReadActAfterAggFailed(p)
    \/ \E c \in RemoteContents("DATA_ACT") : ReadActFails(p, c)
    \/ ReadActReported(p)
    \/ \E c \in RemoteContents("DATA_ACT") : ReadFails(p, c)
    \/ \E c \in RemoteContents("DATA_ACT") : DbReadFails(p, c)
    \/ \E c \in RemoteContents("DATA_ACT") : SendEmbed(p, c)

NextSched ==
    \/ CheckingMarker
    \/ FetchMarkerFails
    \/ \E web \in RemoteMarkers : FetchMarkerDone(web)
    \/ WakeUp
    \/ Cycle(Sched)

NextManual ==
    \/ ManualStart
    \/ ManualNoMarker
    \/ \E web \in Markers : ManualFetchMarkerDone(web)
    \/ Cycle(Manual)

Next == NextSched \/ NextManual

NextDb ==
    \/ \E input \in DbBatches, table \in Tables :
         \E raises_at \in {NoFail} \cup (0..Len(input)) :
             DbInsert(input, table, raises_at)
    \/ DbCommit
    \/ DbClose

NextDiff ==
    \/ \E s \in HarnessSnapshots, ts \in Markers : DiffRun(s, ts)
    \/ DiffReset
    \/ NextDb

NextTop ==
    \/ TopTick
    \/ \E t \in SteamTasks : SteamStart(t)
    \/ \E t \in SteamTasks, fetched, new_title \in BOOLEAN : SteamPages(t, fetched, new_title)
    \/ \E t \in SteamTasks, result \in InsertResults : SteamFinish(t, result)
    \/ \E t \in PsTasks : PsStart(t)
    \/ \E t \in PsTasks : PsFails(t)
    \/ \E t \in PsTasks, content, listed, new_game \in BOOLEAN :
         PsPage(t, content, listed, new_game)
    \/ \E t \in PsTasks, new_game \in BOOLEAN : PsAppidRaises(t, new_game)
    \/ \E t \in PsTasks : PsFinish(t)

NextMfn ==
    \/ MfnWake
    \/ MfnConnected
    \/ MfnConnectFails
    \/ \E jitter \in JitterPercents : MfnReported(jitter)
    \/ MfnFrame
    \/ MfnFrameError
    \/ \E elapsed \in WallElapsed : MfnTimeout(elapsed)
    \/ MfnWatchdog
    \/ \E code \in CloseCodes : MfnClosed(code)

NextRetry ==
    \/ \E cfg \in RetryConfigs : RetryStart(cfg)
    \/ RetryCallReturns
    \/ \E rnd \in RandomValues : RetryCallFails(rnd)
    \/ RetryCallRaisesOther
    \/ RetryWake
    \/ RetryDone

\* the scheduler loop and manual_update as tasks of one event loop
Spec == Init /\ [][Next]_vars

\* the scheduler loop alone
SpecSched == Init /\ [][NextSched]_vars

\* the scheduler loop alone, started on a database file that holds rows
SpecStored == InitStored /\ [][NextSched]_vars

NextLoop == NextSched \/ Cancel

\* the scheduler loop as a task that can be cancelled; every sleep ends and every
\* awaited call resumes or raises
SpecLoop ==
    /\ Init /\ [][NextLoop]_vars
    /\ WF_vars(WakeUp) /\ WF_vars(CheckingMarker)

\* the diff functions driven call by call on the histories insert_bulk_data builds
SpecDiff == InitDiff /\ [][NextDiff]_vars

\* insert_bulk_data called again and again on one connection
SpecDb == Init /\ [][NextDb]_vars

\* the top-seller updates as tasks of one event loop, the clock running
SpecTop == Init /\ [][NextTop]_vars

\* websocket_background_task with every outcome of its connections
SpecMfn == Init /\ [][NextMfn]_vars

\* one decorated call after another
SpecRetry == Init /\ [][NextRetry]_vars

\* ---------------------------------------------------------------- queries
\* pd.DateOffset(months=3) of create_timeseries, in marker ranks: markers next
\* to each other in rank lie less than three months apart, markers two ranks
\* apart lie three months apart
THREE_MONTHS == 2

\* WHERE company_name = ?: the positions in the table of the rows of one company
WhereCompany(hist, company_name) == {i \in DOMAIN hist : hist[i].key = company_name}

\* the rows at positions S in one of the orders ORDER BY timestamp ASC allows
OrderByTimestampAsc(hist, S) ==
    {[n \in 1..Len(p) |-> hist[p[n]]] :
        p \in {q \in Perms(S) : \A a, b \in 1..Len(q) :
                  a < b => hist[q[a]].timestamp <= hist[q[b]].timestamp}}

\* the rows at positions S in one of the orders ORDER BY timestamp DESC allows
OrderByTimestampDesc(hist, S) ==
    {[n \in 1..Len(p) |-> hist[p[n]]] :
        p \in {q \in Perms(S) : \A a, b \in 1..Len(q) :
                  a < b => hist[q[a]].timestamp >= hist[q[b]].timestamp}}

\* the company's rows in table order, no ORDER BY
fetch_historical_unordered(hist, company_name) ==
    {[n \in 1..Len(p) |-> hist[p[n]]] :
        p \in {q \in Perms(WhereCompany(hist, company_name)) :
                  \A a, b \in 1..Len(q) : a < b => q[a] < q[b]}}

\* Database.fetch_historical_short_positions: the lists the query can return
\* (the empty list stands for None)
fetch_historical_short_positions(hist, company_name) ==
    OrderByTimestampDesc(hist, WhereCompany(hist, company_name))

\* Database.fetch_current_short_position: ORDER BY timestamp DESC LIMIT 1; the rows
\* the query can return (no row: None)
fetch_current_short_position(hist, company_name) ==
    {Head(r) : r \in {x \in OrderByTimestampDesc(hist, WhereCompany(hist, company_name)) :
                        x # << >>}}

\* SQLite's text comparison of a stored timestamp 'YYYY-MM-DD HH:MM' with a bound
\* that strftime('%Y-%m-%d %H:%M:%S') wrote: the stored text of the bound's own
\* minute is a proper prefix of the bound, hence smaller
text_ge_bound(timestamp, bound) == timestamp > bound
text_le_bound(timestamp, bound) == timestamp <= bound

\* the range query of create_timeseries: the company's rows from three months
\* before its greatest timestamp up to that timestamp, ORDER BY timestamp ASC
create_timeseries(hist, company_name) ==
    LET mine == WhereCompany(hist, company_name)
        latest_db_ts == CHOOSE t \in {hist[i].timestamp : i \in mine} :
                            \A i \in mine : hist[i].timestamp <= t
        three_months_ago == latest_db_ts - THREE_MONTHS
    IN  IF mine = {} THEN {<< >>}
        ELSE OrderByTimestampAsc(hist,
                {i \in mine : /\ text_ge_bound(hist[i].timestamp, three_months_ago)
                              /\ text_le_bound(hist[i].timestamp, latest_db_ts)})

\* ----------------------------------------------------------------- claims
IsPrefix(a, b) == Len(a) <= Len(b) /\ SubSeq(b, 1, Len(a)) = a

\* C1: the marker file holds a marker only once the snapshot fetched for that
\* marker has gone through download, normalization, diff and both inserts
C1_MarkerAfterCycle == last_known_file # NoneTS => persisted

\* C2: when a cycle of the scheduler loop ends in a download error, a read failure
\* or a database read error, the marker file still holds the value the cycle found
\* in it
C2_MarkerKeptOnFailure ==
    ( /\ pc[Sched] = "Sleeping"
      /\ outcome \in {"download_error", "read_failed", "db_read_error"} )
    => last_known_file = last_known_timestamp

\* C3: when is_timestamp_updated resumes with a fetched marker equal to the marker
\* the cycle read from the marker file, the cycle has made and makes no download,
\* normalization, diff or insert, leaves store, data files and marker file as they
\* are, and the loop sleeps DELAY_TIME
C3_Gate ==
    [][ ( /\ pc[Sched] \in {"FetchingMarker", "PlaceholderWait"}
          /\ pc'[Sched] \notin {"FetchingMarker", "PlaceholderWait"}
          /\ web_timestamp'[Sched] \in Markers
          /\ web_timestamp'[Sched] = last_known_timestamp )
        => ( /\ pc'[Sched] = "Sleeping"
             /\ sleep' = "DELAY_TIME"
             /\ outcome' = "unchanged"
             /\ cycle_calls' = {}
             /\ db' = db
             /\ files' = files
             /\ last_known_file' = last_known_file ) ]_vars

\* a cycle was skipped at the gate: the marker it fetched is the stored one
C3_Witness ==
    /\ pc[Sched] = "Sleeping"
    /\ outcome = "unchanged"
    /\ sleep = "DELAY_TIME"
    /\ web_timestamp[Sched] \in Markers
    /\ web_timestamp[Sched] = last_known_file
    /\ cycle_calls = {}

\* the second run found nothing and appended nothing
SecondRunEmpty ==
    /\ run.again = EmptyDiff
    /\ read_sql(db, run.table) = run.between

\* C5: for every snapshot and every stored history, the diff run again at once
\* on the same snapshot against the updated store yields empty new, changed and
\* dropped sets and appends no row
C5_Idempotent == run.phase = "ran" => SecondRunEmpty

\* the dropped records of key k: rows of the dropped set with its key
DroppedFor(k) == {i \in DOMAIN run.res.dropped : run.res.dropped[i].key = k}

ExactlyOneDropped(k) ==
    /\ Cardinality(DroppedFor(k)) = 1
    /\ \A i \in DroppedFor(k) :
         /\ run.res.dropped[i].position_percent = 0
         /\ run.res.dropped[i].timestamp = run.timestamp

\* C6 as stated: in every run, for either table, each key with a stored record
\* that is absent from the snapshot yields exactly one dropped record with
\* percentage 0 and the run's marker as timestamp
C6_Disappearance ==
    run.phase = "ran" =>
        \A k \in KeysOf(run.before) \ KeysOf(run.snapshot) : ExactlyOneDropped(k)

\* C8: every step leaves each committed row of ShortPositions and PositionHolders
\* in place and unmodified: the committed table before the step is a prefix of
\* the committed table after it
C8_AppendOnly ==
    [][\A t \in Tables : IsPrefix(db.store[t], db'.store[t])]_vars

\* committed rows of a key that was written twice, with rows of a failed insert
\* left in the open transaction
C8_Witness ==
    /\ \E t \in Tables : Cardinality(KeysOf(db.store[t])) < Len(db.store[t])
    /\ \E t \in Tables : db.txn[t] # << >>

\* C9: no row of a batch whose insert_bulk_data call raised ever becomes durable
C9_BatchAtomicity == db.leaked = 0

NonDecreasing(r) == \A a, b \in DOMAIN r : a < b => r[a].timestamp <= r[b].timestamp

NonIncreasing(r) == \A a, b \in DOMAIN r : a < b => r[a].timestamp >= r[b].timestamp

\* the ShortPositions rows the queries see on the connection
ShortHistory == read_sql(db, "ShortPositions")

\* the latest query returns a record of the company with maximal timestamp
LatestIsMaximal ==
    \A k \in Keys : \A r \in fetch_current_short_position(ShortHistory, k) :
        /\ r.key = k
        /\ \A i \in DOMAIN ShortHistory :
             ShortHistory[i].key = k => ShortHistory[i].timestamp <= r.timestamp

\* the time-series query returns records of the company in non-decreasing order
TimeseriesAscending ==
    \A k \in Keys : \A r \in create_timeseries(ShortHistory, k) :
        NonDecreasing(r) /\ \A n \in DOMAIN r : r[n].key = k

\* C11 as stated: for every key the history query, like the time-series query,
\* returns the key's records in non-decreasing timestamp order, and the latest
\* query returns the record with maximal timestamp
C11_MonotonicHistory ==
    /\ \A k \in Keys : \A r \in fetch_historical_short_positions(ShortHistory, k) :
         NonDecreasing(r)
    /\ TimeseriesAscending
    /\ LatestIsMaximal

\* C11 amended: the history query returns all records of the key, newest first
\* (non-increasing timestamp); the time-series query returns records of the key
\* in non-decreasing timestamp order; the latest query returns a record with
\* maximal timestamp among the key's records
C11_HistoryNewestFirst ==
    /\ \A k \in Keys : \A r \in fetch_historical_short_positions(ShortHistory, k) :
         /\ NonIncreasing(r)
         /\ Len(r) = Cardinality(WhereCompany(ShortHistory, k))
         /\ \A n \in DOMAIN r : r[n].key = k
    /\ TimeseriesAscending
    /\ LatestIsMaximal

\* a company with records of two different timestamps, the later one stored
\* first, both of them in the time series
C11_Witness ==
    \E k \in Keys : \E i, j \in WhereCompany(ShortHistory, k) :
        /\ i < j
        /\ ShortHistory[i].timestamp > ShortHistory[j].timestamp
        /\ fetch_current_short_position(ShortHistory, k) = {ShortHistory[i]}
        /\ \E r \in create_timeseries(ShortHistory, k) :
             Len(r) >= 2 /\ r[1] = ShortHistory[j] /\ r[Len(r)] = ShortHistory[i]

\* C12: the delay slept after the n-th failed attempt is min(max_delay,
\* base_delay * 2^n) times a jitter factor in [0.5, 1.0): it lies between half the
\* capped exponential value and that value, and never exceeds max_delay
C12_BackoffBound ==
    retry.pc = "sleeping" =>
        /\ retry.delay >= 50 * capped_delay(retry.cfg, retry.attempt)
        /\ retry.delay < 100 * capped_delay(retry.cfg, retry.attempt)
        /\ retry.delay <= 100 * retry.cfg.max_delay

\* C22: a call through aiohttp_retry(retries = n), n >= 1, calls the wrapped
\* function at most n times and sleeps at most n - 1 times; it raises an aiohttp
\* client error only from the n-th call, after n - 1 sleeps; a call that returned,
\* or raised another exception, ended on the attempt where that happened, with no
\* sleep after it
C22_AttemptCount ==
    retry.pc # "idle" =>
        /\ retry.calls <= retry.cfg.retries
        /\ Len(retry.slept) <= retry.cfg.retries - 1
        /\ retry.pc = "raised" =>
              retry.calls = retry.cfg.retries /\ Len(retry.slept) = retry.cfg.retries - 1
        /\ retry.pc \in {"returned", "raised_other"} =>
              retry.calls = retry.attempt + 1 /\ Len(retry.slept) = retry.attempt

\* the fifth call of five raised a client error and the wrapper re-raised it
C22_Witness ==
    /\ retry.pc = "raised"
    /\ retry.cfg.retries = 5
    /\ retry.calls = 5
    /\ Len(retry.slept) = 4

\* C13: no failure ends the scheduler loop: an exception raised in marker check,
\* download, read, database read, diff, insert or notification never leaves
\* update_fi_from_web
C13_LoopSurvives == pc[Sched] # "Crashed"

\* the coroutine's cycle is between the start of its first download and its last insert
InFlight(p) == pc[p] \in {"DownloadAgg", "DownloadAct", "ReadAggFailed", "ReadActFailed"}

\* C14: at no time are two cycles in flight at once: the scheduler loop and
\* manual_update are never both between their first download and their last insert
C14_NonOverlapping == ~(InFlight(Sched) /\ InFlight(Manual))

\* C19: in every diff run the new set holds exactly the keys of the snapshot that
\* the stored history lacks; against an empty store every snapshot key is new, the
\* changed and dropped sets are empty and one row per distinct snapshot key is
\* appended
C19_NewSet ==
    run.phase = "ran" =>
        /\ KeysOf(run.res.new) = KeysOf(run.snapshot) \ KeysOf(run.before)
        /\ run.before = << >> =>
              /\ run.res.changed = << >>
              /\ run.res.dropped = << >>
              /\ Len(run.between) = Cardinality(KeysOf(run.snapshot))

\* C20: a scheduler cycle that ended in an exception is followed by a wait derived
\* from the count n of failed cycles in a row: the capped exponential
\* min(max_delay, base_delay * 2^(n-1)) of the loop's retry arguments, times a
\* jitter factor of at least 0.5 and below 1.5
C20_BackoffState ==
    ( /\ pc[Sched] = "Sleeping"
      /\ outcome \in ExceptionOutcomes
      /\ failures < MaxFailures )
    => /\ failures >= 1
       /\ 100 * wait >= 50 * capped_delay(LoopRetry, failures - 1)
       /\ 100 * wait < 150 * capped_delay(LoopRetry, failures - 1)

\* C21: under any interleaving of the update calls and the clock, neither
\* SteamTopGames nor PSTopGames ever holds two inserted batches that carry the same
\* hour timestamp
C21_HourlyDedupe ==
    \A t \in TopTables : \A i, j \in DOMAIN top.table[t] :
        top.table[t][i] = top.table[t][j] => i = j

\* the step in which websocket_background_task handles the end of a
\* fetch_mfn_updates call and goes to sleep
MfnHandles == mfn.pc # "sleeping" /\ mfn'.pc = "sleeping"

\* C23: the wait before a reconnect never exceeds MAX_RECONNECT_WAIT_SECONDS; a
\* close with code 3000 waits exactly FAST_RECONNECT_DELAY_SECONDS and leaves
\* attempt_count as it is; every other ConnectionClosed and every unhandled error
\* adds one to attempt_count, also after a connection that delivered frames; and
\* attempt_count changes in no other step and decreases only on the watchdog path
C23_ReconnectBackoff ==
    [][ /\ MfnHandles =>
             /\ mfn'.wait_time <= MAX_RECONNECT_WAIT_SECONDS
             /\ mfn'.event = "closed_3000" =>
                   /\ mfn'.wait_time = FAST_RECONNECT_DELAY_SECONDS
                   /\ mfn'.attempt_count = mfn.attempt_count
             /\ mfn'.event \in {"closed_1006", "closed_other", "error"} =>
                   mfn'.attempt_count = mfn.attempt_count + 1
             /\ mfn'.attempt_count < mfn.attempt_count =>
                   mfn'.event = "watchdog" /\ mfn'.attempt_count = 0
        /\ ~MfnHandles => mfn'.attempt_count = mfn.attempt_count ]_vars

\* the task sleeps the capped wait after a connection that had delivered frames
\* closed with a code other than 3000
C23_Witness ==
    /\ mfn.pc = "sleeping"
    /\ mfn.event = "closed_other"
    /\ mfn.worked
    /\ mfn.attempt_count >= 6
    /\ mfn.wait_time = MAX_RECONNECT_WAIT_SECONDS

\* C24: the watchdog closes a connection only on a receive timeout that follows
\* at least one other timeout with no frame in between, with the manual ping of
\* the first of them outstanding for at least MANUAL_PING_GRACE_SECONDS; while the
\* connection is listened on, a manual ping is outstanding exactly when a
\* timeout occurred since the last frame
C24_Watchdog ==
    /\ (mfn.pc = "closing" \/ (mfn.pc = "sleeping" /\ mfn.event = "watchdog")) =>
          /\ mfn.timeouts >= 2
          /\ mfn.manual_ping_out_at # NoneTS
          /\ mfn.grace_elapsed >= MANUAL_PING_GRACE_SECONDS
    /\ mfn.pc = "listening" => (mfn.manual_ping_out_at # NoneTS <=> mfn.timeouts >= 1)

\* the watchdog closed a connection that had delivered frames, after a timeout
\* that fell inside the grace period was waited out
C24_Witness ==
    /\ mfn.pc = "sleeping"
    /\ mfn.event = "watchdog"
    /\ mfn.worked
    /\ mfn.timeouts > 2

\* the stored history of the run holds key k, and each of its records of k with
\* the greatest timestamp has position_percent 0
LatestIsDrop(k) ==
    /\ k \in KeysOf(run.before)
    /\ \A i \in DOMAIN run.before :
         ( /\ run.before[i].key = k
           /\ \A j \in DOMAIN run.before :
                run.before[j].key = k => run.before[j].timestamp <= run.before[i].timestamp )
         => run.before[i].position_percent = 0

\* the rows the first call of the run appended
Appended == SubSeq(run.between, Len(run.before) + 1, Len(run.between))

\* C28: in every PositionHolders run, a key whose latest stored record is a drop
\* yields no dropped record while it stays absent from the snapshot, and when the
\* snapshot holds it again with a percentage beyond the tolerance it is in the
\* changed set, not in the new set, and exactly one row of it is appended
C28_DropAndReappear ==
    (run.phase = "ran" /\ run.table = "PositionHolders") =>
        \A k \in Keys : LatestIsDrop(k) =>
            /\ k \notin KeysOf(run.snapshot) => DroppedFor(k) = {}
            /\ ( /\ k \in KeysOf(run.snapshot)
                 /\ \A i \in DOMAIN run.snapshot :
                      run.snapshot[i].key = k => run.snapshot[i].position_percent > TOLERANCE )
               => /\ k \in KeysOf(run.res.changed)
                  /\ k \notin KeysOf(run.res.new)
                  /\ Cardinality({i \in DOMAIN Appended : Appended[i].key = k}) = 1
                  /\ \A i \in DOMAIN Appended :
                       Appended[i].key = k => Appended[i].position_percent > TOLERANCE

\* C27: whatever cycles of the scheduler loop and manual updates have run, the
\* marker file, if it exists, holds neither the placeholder "0001-01-01 00:00"
\* nor an empty marker
C27_MarkerValid == last_known_file \notin {PLACEHOLDER, EMPTY}

\* the scheduler loop's cycle takes the step in which download_file(DATA_ACT)
\* resumes, the position-holder file written being c, and the files are read
ReadsFiles(c) ==
    \/ ReadAggFails(Sched, c)
    \/ ReadActFails(Sched, c)
    \/ ReadFails(Sched, c)
    \/ DbReadFails(Sched, c)
    \/ SendEmbed(Sched, c)

\* the cycle's next step while it awaits the report of a failed read
AfterReport == ReadActAfterAggFailed(Sched) \/ ReadActReported(Sched)

\* the cycle is given up: nothing stored, no diff function and no send_embed
\* called, the loop asleep until the next check time, still in a report, or
\* ended by a report that raised
GivenUp ==
    /\ db' = db
    /\ cycle_calls' \cap {"diff", "insert"} = {}
    /\ pc'[Sched] \in {"Sleeping", "ReadAggFailed", "ReadActFailed", "Crashed"}
    /\ pc'[Sched] = "Sleeping" => (outcome' = "read_failed" /\ sleep' = "next_check_time")

\* C29: when the scheduler loop reads the two files and the aggregate frame or
\* the position-holder frame is empty (the read raised, or no row is left),
\* whatever the other frame holds, the cycle ends there: both tables stay as they
\* are, open transaction included, neither diff function nor send_embed is
\* called, and once the error reports of the reads have returned the loop sleeps
\* until the next check time (a report that raises ends the loop instead)
C29_EmptySnapshot ==
    [][ /\ \A c \in RemoteContents("DATA_ACT") :
             ( /\ ReadsFiles(c)
               /\ read_data(files.DATA_AGG) = << >> \/ read_data(c) = << >> )
             => GivenUp
        /\ AfterReport => (GivenUp /\ pc'[Sched] # "ReadAggFailed") ]_vars

\* a cycle was given up after read_excel rejected the position-holder file, which
\* is left on disk, while PositionHolders holds a key with a positive percentage,
\* which the empty snapshot lacks
C29_Witness ==
    /\ pc[Sched] = "Sleeping"
    /\ outcome = "read_failed"
    /\ cycle_calls = {"download", "normalize"}
    /\ files.DATA_ACT = Rejected
    /\ \E i \in DOMAIN db.store["PositionHolders"] :
         db.store["PositionHolders"][i].position_percent > 0
====
